---- MODULE Spec2Model ----
(***************************************************************************)
(* Model of fext (src/src/main.rs): scan the current directory, group the *)
(* regular, non-hidden files by lowercased extension in a BTreeMap, print  *)
(* every group with its filenames sorted.                                  *)
(*                                                                         *)
(* Strings are sequences of bytes (OS strings on Unix); the byte alphabet  *)
(* used by the directory contents below is ASCII plus the byte 255, which  *)
(* never occurs in valid UTF-8.  Rust compares Strings bytewise.           *)
(***************************************************************************)
EXTENDS Integers, Sequences, FiniteSets, TLC

VARIABLES dir, todo, files_by_extension, stdout, stderr, status, pc,
          printed, failedAt, runNo, prevStdout, prevStatus, prevTable

vars == <<dir, todo, files_by_extension, stdout, stderr, status, pc,
          printed, failedAt, runNo, prevStdout, prevStatus, prevTable>>

\* ---------------------------------------------------------------- bounds
MaxEntries == 3
MaxRuns == 2

\* ------------------------------------------------------------ characters
Dot == 46
Colon == 58
Dash == 45
Space == 32

\* ":"
NO_EXTENSION_PLACEHOLDER == <<Colon>>

\* "Scanning directory: "
ScanPrefix == <<83, 99, 97, 110, 110, 105, 110, 103, 32,
                100, 105, 114, 101, 99, 116, 111, 114, 121, 58, 32>>
\* "An error occurred: "
ErrPrefix == <<65, 110, 32, 101, 114, 114, 111, 114, 32,
               111, 99, 99, 117, 114, 114, 101, 100, 58, 32>>
\* "/d", the process's current directory
CwdPath == <<47, 100>>
\* Display texts of the I/O errors the platform may report: "E2", "E13"
ErrMsgs == {<<69, 50>>, <<69, 49, 51>>}

\* ------------------------------------------------------------ file names
N_a_txt    == <<97, 46, 116, 120, 116>>
N_B_TXT    == <<66, 46, 84, 88, 84>>
N_A_TXT    == <<65, 46, 84, 88, 84>>
N_b_txt    == <<98, 46, 116, 120, 116>>
N_notes_MD == <<110, 111, 116, 101, 115, 46, 77, 68>>
N_script   == <<115, 99, 114, 105, 112, 116>>
N_hidden   == <<46, 104, 105, 100, 100, 101, 110>>
N_sub      == <<115, 117, 98>>
N_sub_txt  == <<115, 117, 98, 46, 116, 120, 116>>
N_README   == <<82, 69, 65, 68, 77, 69>>
N_a_colon  == <<97, 46, 58>>
N_foo_dot  == <<102, 111, 111, 46>>
N_env      == <<46, 101, 110, 118>>
N_bad_txt  == <<255, 46, 116, 120, 116>>
N_lnk_md   == <<108, 110, 107, 46, 109, 100>>
N_a_t_gz   == <<97, 46, 116, 46, 103, 122>>
N_p_md     == <<112, 46, 109, 100>>

\* A directory entry: its name and its resolved type.  "broken" is an entry
\* whose metadata cannot be read (a dangling symlink), "other" a special file.
Entry(n, k) == [name |-> n, kind |-> k]

Universe ==
  { Entry(N_a_txt, "file"),   Entry(N_A_TXT, "file"),  Entry(N_b_txt, "file"),
    Entry(N_README, "file"),  Entry(N_a_colon, "file"), Entry(N_foo_dot, "file"),
    Entry(N_env, "file"),     Entry(N_sub_txt, "dir"), Entry(N_sub_txt, "file"),
    Entry(N_bad_txt, "file"), Entry(N_lnk_md, "broken"), Entry(N_a_t_gz, "file"),
    Entry(N_p_md, "other") }

ScenarioDir ==
  { Entry(N_a_txt, "file"), Entry(N_B_TXT, "file"), Entry(N_notes_MD, "file"),
    Entry(N_script, "file"), Entry(N_hidden, "file"), Entry(N_sub, "dir") }

UniqueNames(d) == \A e1, e2 \in d : e1.name = e2.name => e1 = e2

Directories ==
  { d \in SUBSET Universe : Cardinality(d) <= MaxEntries /\ UniqueNames(d) }
    \cup { ScenarioDir }

\* ------------------------------------------------------- library helpers
None == [some |-> FALSE, val |-> <<>>]
Some(v) == [some |-> TRUE, val |-> v]

\* Ord for String / str: bytewise lexicographic comparison.
LexLess(s, t) ==
  \E i \in 1..(Len(s) + 1) :
    /\ i <= Len(t)
    /\ \A j \in 1..(i - 1) : s[j] = t[j]
    /\ (i = Len(s) + 1 \/ s[i] < t[i])

\* OsStr::to_str: Some for valid UTF-8, None otherwise.
ToStr(os) == IF \A i \in 1..Len(os) : os[i] < 128 THEN Some(os) ELSE None

\* Variant: the extension is used as written, without lowercasing.
ToLowercase_Identity(s) == s

\* str::to_lowercase on the ASCII range.
ToLowercase(s) ==
  [i \in 1..Len(s) |-> IF s[i] >= 65 /\ s[i] <= 90 THEN s[i] + 32 ELSE s[i]]

\* str::starts_with('.')
StartsWithDot(s) == Len(s) >= 1 /\ s[1] = Dot

\* Path::extension of the final component: the part after the last '.',
\* None when there is no '.' or the only '.' is the first byte.
Extension(n) ==
  LET dots == {i \in 1..Len(n) : n[i] = Dot} IN
  IF n = <<Dot, Dot>> \/ dots = {} THEN None
  ELSE LET d == CHOOSE i \in dots : \A j \in dots : j <= i IN
       IF d = 1 THEN None ELSE Some(SubSeq(n, d + 1, Len(n)))

\* Variant: Path::exists instead of Path::is_file.
IsFile_Exists(e) == e.kind # "broken"

\* Variant: only directories are excluded.
IsFile_NotDir(e) == e.kind # "dir"

\* Path::is_file: true only for an entry that resolves to a regular file;
\* false (not an error) when the metadata cannot be read.
IsFile(e) == e.kind = "file"

\* Variant: the filenames are printed in insertion order.
SortUnstable_NoSort(s) == s

\* slice::sort_unstable on a Vec<String>
RECURSIVE SortUnstable(_)
SortUnstable(s) ==
  IF s = <<>> THEN <<>>
  ELSE LET i == CHOOSE i \in 1..Len(s) : \A j \in 1..Len(s) : ~LexLess(s[j], s[i])
           rest == [k \in 1..(Len(s) - 1) |-> IF k < i THEN s[k] ELSE s[k + 1]]
       IN <<s[i]>> \o SortUnstable(rest)

\* Variant: the map is walked in descending key order.
RECURSIVE KeysInOrder_Descending(_)
KeysInOrder_Descending(S) ==
  IF S = {} THEN <<>>
  ELSE LET m == CHOOSE m \in S : \A k \in S : ~LexLess(m, k)
       IN <<m>> \o KeysInOrder_Descending(S \ {m})

\* BTreeMap iteration order: keys ascending.
RECURSIVE KeysInOrder(_)
KeysInOrder(S) ==
  IF S = {} THEN <<>>
  ELSE LET m == CHOOSE m \in S : \A k \in S : ~LexLess(k, m)
       IN <<m>> \o KeysInOrder(S \ {m})

\* ------------------------------------------------------------- the program
\* match path.extension().and_then(to_str) { Some(ext) => lowercase, None => ":" }
GroupKey(n) ==
  LET ext == Extension(n)
      str == IF ext.some THEN ToStr(ext.val) ELSE None
  IN IF str.some THEN ToLowercase(str.val) ELSE NO_EXTENSION_PLACEHOLDER

\* files_by_extension.entry(k).or_default().push(v)
Push(tbl, k, v) ==
  [x \in (DOMAIN tbl) \cup {k} |->
     IF x = k THEN (IF k \in DOMAIN tbl THEN Append(tbl[k], v) ELSE <<v>>)
     ELSE tbl[x]]

\* Variant: the map slot is created before the hidden-file test.
EntryStep_EagerDefault(tbl, e) ==
  IF ~IsFile(e) THEN tbl
  ELSE LET fn == ToStr(e.name) IN
       IF ~fn.some THEN tbl
       ELSE LET k == GroupKey(e.name)
                slot == [x \in (DOMAIN tbl) \cup {k} |->
                           IF x \in DOMAIN tbl THEN tbl[x] ELSE <<>>]
            IN IF StartsWithDot(fn.val) THEN slot ELSE Push(slot, k, fn.val)

\* Body of the scan loop for one successfully read entry.
EntryStep(tbl, e) ==
  IF ~IsFile(e) THEN tbl
  ELSE LET fn == ToStr(e.name) IN
       IF ~fn.some THEN tbl
       ELSE IF StartsWithDot(fn.val) THEN tbl
       ELSE Push(tbl, GroupKey(e.name), fn.val)

HeaderLine(k) == k \o <<Colon>>
FileLine(n) == <<Dash, Space>> \o n
ScanLine == ScanPrefix \o CwdPath
ErrLine(msg) == ErrPrefix \o msg

\* Lines printed for one group: header, sorted filenames, blank line.
RECURSIVE FileLines(_)
FileLines(s) == IF s = <<>> THEN <<>> ELSE <<FileLine(Head(s))>> \o FileLines(Tail(s))

GroupLines(k, filenames) ==
  <<HeaderLine(k)>> \o FileLines(SortUnstable(filenames)) \o << <<>> >>

EmptyTable == [x \in {} |-> <<>>]

NoExit == -1

Init ==
  /\ dir \in Directories
  /\ todo = {}
  /\ files_by_extension = EmptyTable
  /\ stdout = <<>>
  /\ stderr = <<>>
  /\ status = NoExit
  /\ pc = "start"
  /\ printed = 0
  /\ failedAt = "none"
  /\ runNo = 1
  /\ prevStdout = <<>>
  /\ prevStatus = NoExit
  /\ prevTable = EmptyTable

\* main's Err arm: one line on stderr, exit(1).
FailWith(msg, at) ==
  /\ stderr' = Append(stderr, ErrLine(msg))
  /\ status' = 1
  /\ pc' = "failed"
  /\ failedAt' = at

GetCwdOk ==
  /\ pc = "start"
  /\ stdout' = stdout \o <<ScanLine, <<>> >>
  /\ files_by_extension' = EmptyTable
  /\ pc' = "open"
  /\ UNCHANGED <<dir, todo, stderr, status, printed, failedAt, runNo,
                 prevStdout, prevStatus, prevTable>>

GetCwdErr(msg) ==
  /\ pc = "start"
  /\ FailWith(msg, "cwd")
  /\ UNCHANGED <<dir, todo, files_by_extension, stdout, printed, runNo,
                 prevStdout, prevStatus, prevTable>>

OpenDirOk ==
  /\ pc = "open"
  /\ todo' = dir
  /\ pc' = "scan"
  /\ UNCHANGED <<dir, files_by_extension, stdout, stderr, status, printed,
                 failedAt, runNo, prevStdout, prevStatus, prevTable>>

OpenDirErr(msg) ==
  /\ pc = "open"
  /\ FailWith(msg, "open")
  /\ UNCHANGED <<dir, todo, files_by_extension, stdout, printed, runNo,
                 prevStdout, prevStatus, prevTable>>

\* Variant: an entry error ends the scan and the groups found so far are printed.
NextEntryErr_BestEffort(msg) ==
  /\ pc = "scan"
  /\ pc' = "print"
  /\ printed' = 0
  /\ UNCHANGED <<dir, todo, files_by_extension, stdout, stderr, status,
                 failedAt, runNo, prevStdout, prevStatus, prevTable>>

\* The iterator yields Err: `entry?` returns from run_file_sorter.
NextEntryErr(msg) ==
  /\ pc = "scan"
  /\ FailWith(msg, "entry")
  /\ UNCHANGED <<dir, todo, files_by_extension, stdout, printed, runNo,
                 prevStdout, prevStatus, prevTable>>

\* Variant: every accepted file is printed as soon as it is scanned.
ProcessEntry_Streaming(e) ==
  /\ pc = "scan"
  /\ e \in todo
  /\ todo' = todo \ {e}
  /\ files_by_extension' = EntryStep(files_by_extension, e)
  /\ stdout' = IF files_by_extension' = files_by_extension THEN stdout
               ELSE Append(stdout, FileLine(e.name))
  /\ UNCHANGED <<dir, stderr, status, pc, printed, failedAt, runNo,
                 prevStdout, prevStatus, prevTable>>

\* The iterator yields Ok(entry), in whatever order the platform enumerates.
ProcessEntry(e) ==
  /\ pc = "scan"
  /\ e \in todo
  /\ todo' = todo \ {e}
  /\ files_by_extension' = EntryStep(files_by_extension, e)
  /\ UNCHANGED <<dir, stdout, stderr, status, pc, printed, failedAt, runNo,
                 prevStdout, prevStatus, prevTable>>

ScanEnd ==
  /\ pc = "scan"
  /\ todo = {}
  /\ pc' = "print"
  /\ printed' = 0
  /\ UNCHANGED <<dir, todo, files_by_extension, stdout, stderr, status,
                 failedAt, runNo, prevStdout, prevStatus, prevTable>>

PrintGroup ==
  /\ pc = "print"
  /\ printed < Cardinality(DOMAIN files_by_extension)
  /\ LET k == KeysInOrder(DOMAIN files_by_extension)[printed + 1]
     IN stdout' = stdout \o GroupLines(k, files_by_extension[k])
  /\ printed' = printed + 1
  /\ UNCHANGED <<dir, todo, files_by_extension, stderr, status, pc, failedAt,
                 runNo, prevStdout, prevStatus, prevTable>>

Finish ==
  /\ pc = "print"
  /\ printed = Cardinality(DOMAIN files_by_extension)
  /\ pc' = "done"
  /\ status' = 0
  /\ UNCHANGED <<dir, todo, files_by_extension, stdout, stderr, printed,
                 failedAt, runNo, prevStdout, prevStatus, prevTable>>

\* The program is started again on the unchanged directory.
Rerun ==
  /\ pc \in {"done", "failed"}
  /\ runNo < MaxRuns
  /\ runNo' = runNo + 1
  /\ prevStdout' = stdout
  /\ prevStatus' = status
  /\ prevTable' = files_by_extension
  /\ todo' = {}
  /\ files_by_extension' = EmptyTable
  /\ stdout' = <<>>
  /\ stderr' = <<>>
  /\ status' = NoExit
  /\ pc' = "start"
  /\ printed' = 0
  /\ failedAt' = "none"
  /\ UNCHANGED dir

Next ==
  \/ GetCwdOk
  \/ \E msg \in ErrMsgs : GetCwdErr(msg)
  \/ OpenDirOk
  \/ \E msg \in ErrMsgs : OpenDirErr(msg)
  \/ \E msg \in ErrMsgs : NextEntryErr(msg)
  \/ \E e \in todo : ProcessEntry(e)
  \/ ScanEnd
  \/ PrintGroup
  \/ Finish
  \/ Rerun

Spec == Init /\ [][Next]_vars

\* ------------------------------------------------------ report vocabulary
Range(s) == {s[i] : i \in 1..Len(s)}

IsFileLine(l) == Len(l) >= 2 /\ l[1] = Dash /\ l[2] = Space
IsHeaderLine(l) == Len(l) >= 1 /\ l[Len(l)] = Colon /\ ~IsFileLine(l)
IsGroupLine(l) == IsFileLine(l) \/ IsHeaderLine(l)
NameOfLine(l) == SubSeq(l, 3, Len(l))
KeyOfLine(l) == SubSeq(l, 1, Len(l) - 1)

\* Line j is the header of the group that line i belongs to.
IsHeaderOf(out, j, i) ==
  /\ j < i
  /\ IsHeaderLine(out[j])
  /\ \A k \in (j + 1)..(i - 1) : IsFileLine(out[k])

FileLinesOf(out, n) ==
  {i \in 1..Len(out) : IsFileLine(out[i]) /\ NameOfLine(out[i]) = n}

Hidden(n) == Len(n) >= 1 /\ n[1] = Dot
Regular(e) == e.kind = "file"
ValidUtf8(n) == \A i \in 1..Len(n) : n[i] <= 127
Unreadable(e) == e.kind = "broken" \/ ~ValidUtf8(e.name)

\* The name has an extension: a '.' that is not its first character.
HasExt(n) == \E i \in 2..Len(n) : n[i] = Dot
AfterLastDot(n) ==
  LET d == CHOOSE i \in 1..Len(n) :
             n[i] = Dot /\ \A j \in (i + 1)..Len(n) : n[j] # Dot
  IN SubSeq(n, d + 1, Len(n))
Lower(s) == [i \in 1..Len(s) |-> IF s[i] \in 65..90 THEN s[i] + 32 ELSE s[i]]
ExpectedKey(n) == IF HasExt(n) THEN Lower(AfterLastDot(n)) ELSE <<Colon>>

Processed == IF pc \in {"scan", "print", "done"} \/ failedAt = "entry"
             THEN dir \ todo ELSE {}

\* The file is reported exactly once, under the key expected for its name.
ReportedOnceUnderItsKey(e) ==
  /\ Cardinality(FileLinesOf(stdout, e.name)) = 1
  /\ \A i \in FileLinesOf(stdout, e.name) :
       \E j \in 1..(i - 1) : /\ IsHeaderOf(stdout, j, i)
                             /\ KeyOfLine(stdout[j]) = ExpectedKey(e.name)
  /\ Cardinality({k \in DOMAIN files_by_extension :
                    e.name \in Range(files_by_extension[k])}) = 1

\* ------------------------------------------------------------------ C1
\* C1: after a successful run every regular file whose name does not begin
\* with '.' appears in the report exactly once, in exactly one group, whose
\* key is the lowercased extension of the name or the placeholder.
C1_EveryVisibleFileReported ==
  pc = "done" =>
    \A e \in dir : (Regular(e) /\ ~Hidden(e.name)) => ReportedOnceUnderItsKey(e)

\* The same statement for the names that are valid UTF-8.
GroupingOfUtf8Names ==
  pc = "done" =>
    \A e \in dir : (Regular(e) /\ ~Hidden(e.name) /\ ValidUtf8(e.name))
                     => ReportedOnceUnderItsKey(e)

\* ------------------------------------------------------------------ C2
\* C2: in every state, every filename held in a group or printed in the
\* report is the name of a directory entry that is a regular file and does
\* not begin with '.'.
C2_OnlyVisibleRegularFiles ==
  /\ \A k \in DOMAIN files_by_extension :
       \A n \in Range(files_by_extension[k]) :
         \E e \in dir : e.name = n /\ Regular(e) /\ ~Hidden(n)
  /\ \A i \in 1..Len(stdout) :
       IsFileLine(stdout[i]) =>
         \E e \in dir : e.name = NameOfLine(stdout[i]) /\ Regular(e) /\ ~Hidden(e.name)

C2_Witness ==
  /\ pc = "done"
  /\ Entry(N_sub_txt, "dir") \in dir
  /\ Entry(N_env, "file") \in dir
  /\ \E i \in 1..Len(stdout) : IsFileLine(stdout[i])

\* ------------------------------------------------------------------ C3
\* C3: in the report the group keys are strictly ascending and, within each
\* group, the filenames are strictly ascending (bytewise comparison).
C3_ReportSorted ==
  /\ \A i, j \in 1..Len(stdout) :
       (i < j /\ IsHeaderLine(stdout[i]) /\ IsHeaderLine(stdout[j]))
         => LexLess(KeyOfLine(stdout[i]), KeyOfLine(stdout[j]))
  /\ \A i \in 1..(Len(stdout) - 1) :
       (IsFileLine(stdout[i]) /\ IsFileLine(stdout[i + 1]))
         => LexLess(NameOfLine(stdout[i]), NameOfLine(stdout[i + 1]))

C3_Witness ==
  /\ pc = "done"
  /\ Cardinality(DOMAIN files_by_extension) >= 2
  /\ \E k \in DOMAIN files_by_extension :
       /\ Len(files_by_extension[k]) >= 2
       /\ LexLess(files_by_extension[k][2], files_by_extension[k][1])

\* ------------------------------------------------------------------ C4
\* C4: a failing run writes no group header and no '- <filename>' line to
\* stdout, writes exactly one line 'An error occurred: <message>' to stderr
\* and exits with status 1; group lines exist only once the whole directory
\* has been enumerated without error.
C4_AllOrNothing ==
  /\ pc = "failed" =>
       /\ \A i \in 1..Len(stdout) : ~IsGroupLine(stdout[i])
       /\ Len(stderr) = 1
       /\ \E msg \in ErrMsgs : stderr[1] = ErrPrefix \o msg
       /\ status = 1
  /\ (\E i \in 1..Len(stdout) : IsGroupLine(stdout[i])) =>
       /\ pc \in {"print", "done"}
       /\ todo = {}
       /\ stderr = <<>>

C4_Witness ==
  /\ pc = "failed"
  /\ failedAt = "entry"
  /\ todo # {}
  /\ DOMAIN files_by_extension # {}

\* ------------------------------------------------------------------ C5
\* C5 as stated: for the scenario directory stdout is exactly
\* ':', '- script', '', 'md:', '- notes.MD', '', 'txt:', '- B.TXT', '- a.txt', ''.
C5_ScenarioAsStated ==
  (dir = ScenarioDir /\ pc = "done") =>
    stdout = << <<Colon>>, <<Dash, Space>> \o N_script, <<>>,
                <<109, 100, Colon>>, <<Dash, Space>> \o N_notes_MD, <<>>,
                <<116, 120, 116, Colon>>, <<Dash, Space>> \o N_B_TXT,
                <<Dash, Space>> \o N_a_txt, <<>> >>

\* C5 amended: stdout is 'Scanning directory: <cwd>', '', then the three
\* group blocks, the no-extension group being headed '::' (key ':' + ':').
C5_ScenarioReport ==
  (dir = ScenarioDir /\ pc = "done") =>
    stdout = << ScanPrefix \o CwdPath, <<>>,
                <<Colon, Colon>>, <<Dash, Space>> \o N_script, <<>>,
                <<109, 100, Colon>>, <<Dash, Space>> \o N_notes_MD, <<>>,
                <<116, 120, 116, Colon>>, <<Dash, Space>> \o N_B_TXT,
                <<Dash, Space>> \o N_a_txt, <<>> >>

C5_Witness ==
  /\ dir = ScenarioDir
  /\ pc = "done"
  /\ Len(stdout) = 12

C7_SameOutputOnRerun ==
  (pc = "done" /\ runNo >= 2 /\ prevStatus = 0) => stdout = prevStdout

C7_Witness ==
  /\ pc = "done"
  /\ runNo >= 2
  /\ prevStatus = 0
  /\ prevTable # files_by_extension
  /\ Len(stdout) > 2

\* ------------------------------------------------------------------ C8
\* C8 as stated: stdout is empty in every failing run.
C8_FailingRunStdoutEmpty ==
  pc = "failed" => stdout = <<>>

\* C8 amended: in a failing run stdout is empty when the current directory
\* could not be resolved, and otherwise holds exactly the line
\* 'Scanning directory: <cwd>' followed by one blank line.
C8_FailingRunStdoutIsPreamble ==
  pc = "failed" =>
    IF failedAt = "cwd" THEN stdout = <<>>
    ELSE stdout = << ScanPrefix \o CwdPath, <<>> >>

C8_Witness ==
  /\ pc = "failed"
  /\ failedAt = "entry"
  /\ todo = {}
  /\ Cardinality(DOMAIN files_by_extension) >= 2

\* ------------------------------------------------------------------ C9
\* C9: every key of the group table maps to at least one filename and was
\* produced by an already processed regular non-hidden file; a step of the
\* scan never removes a key or a filename.
C9_GroupsNonEmpty ==
  \A k \in DOMAIN files_by_extension :
    /\ Len(files_by_extension[k]) >= 1
    /\ \E e \in Processed : /\ Regular(e) /\ ~Hidden(e.name)
                            /\ e.name \in Range(files_by_extension[k])
                            /\ ExpectedKey(e.name) = k

C9_ScanOnlyAdds ==
  (runNo' = runNo) =>
    \A k \in DOMAIN files_by_extension :
      /\ k \in DOMAIN files_by_extension'
      /\ Len(files_by_extension'[k]) >= Len(files_by_extension[k])
      /\ SubSeq(files_by_extension'[k], 1, Len(files_by_extension[k]))
           = files_by_extension[k]

C9_NoEmptyGroup == [](C9_GroupsNonEmpty) /\ [][C9_ScanOnlyAdds]_vars

C9_Witness ==
  /\ pc = "print"
  /\ Cardinality(DOMAIN files_by_extension) >= 2
  /\ \E e \in dir : Regular(e) /\ Hidden(e.name)

\* ----------------------------------------------------------------- C10
\* C10: a file is listed in the placeholder group ':' if and only if its
\* name has no extension.
C10_PlaceholderMeansNoExtension ==
  \A k \in DOMAIN files_by_extension :
    \A n \in Range(files_by_extension[k]) :
      (k = NO_EXTENSION_PLACEHOLDER) <=> ~HasExt(n)

====
